---------------------------- MODULE Spec2Model ----------------------------
(***************************************************************************)
(* Model of sodium/src/secbuf.rs: the SecBuf protection state machine,     *)
(* its backing stores (RustBuf, SodiumBuf), the Locker guard, and the      *)
(* identity codec (render / securely_corrected / insecurely_corrected).    *)
(***************************************************************************)
EXTENDS Integers, Sequences, FiniteSets, TLC

VARIABLES
    buf,        \* the SecBuf under test (b: backing store, p: ProtectState), or NoBuf
    guards,     \* stack of live Lockers on buf, innermost last; each entry is
                \* the mode it was created with ("r" = read_lock, "w" = write_lock)
    panicking,  \* TRUE while a panic raised by an operation is unwinding
    last,       \* record of the last operation: what it was, the state before, its outcome
    src,        \* codec: the buffer that is rendered
    str,        \* codec: the string in hand (rendered, altered, or entered)
    alt,        \* codec: the alteration applied to the rendered string, if any
    strict_b64, \* codec: whether base64::decode is a strict build
    res,        \* codec: the result of securely_corrected / insecurely_corrected
    stage       \* codec: how far the scenario has come

smvars == <<buf, guards, panicking, last>>

cvars == <<src, str, alt, strict_b64, res, stage>>

vars == <<buf, guards, panicking, last, src, str, alt, strict_b64, res, stage>>

-----------------------------------------------------------------------------
(* Bounds of the model *)

\* deepest nesting of Lockers explored (a Locker derefs to SecBuf, so a
\* Locker can be asked for another read_lock / write_lock)
MaxGuards == 2

\* indices 0..MaxIdx are used for indexed reads and writes
MaxIdx == 1

\* sizes requested from with_insecure / with_secure
Sizes == {1, 2, 8, 16, 32, 64}

\* byte values written through a write guard (12, 222: the values of the tests)
Vals == {12, 222}

-----------------------------------------------------------------------------
(* ProtectState *)

NoAccess == "NoAccess"
ReadOnly == "ReadOnly"
ReadWrite == "ReadWrite"
ProtectState == {NoAccess, ReadOnly, ReadWrite}

-----------------------------------------------------------------------------
(* Backing stores.  A store is a record                                    *)
(*   kind  : "RustBuf" or "SodiumBuf"                                      *)
(*   bytes : its bytes, a sequence (index i of the code is bytes[i+1])     *)
(*   prot  : the access mode of its memory.  RustBuf is plain heap memory, *)
(*           always accessible; SodiumBuf memory carries the mode last set *)
(*           by sodium_mprotect_*.                                         *)

Zeroes(s) == [i \in 1..s |-> 0]

RustBuf_new(s) ==
    [panic |-> FALSE,
     b |-> [kind |-> "RustBuf", bytes |-> Zeroes(s), prot |-> ReadWrite]]

NoStore == [kind |-> "None", bytes |-> <<>>, prot |-> "None"]

\* (mutant of BadSize: the last allowed size is forgotten)
BadSize_no64(s) == s # 8 /\ s # 16 /\ s # 32

\* the size test of SodiumBuf::new
BadSize(s) == s # 8 /\ s # 16 /\ s # 32 /\ s # 64

\* What sodium_malloc returns as z: a null pointer, or memory that
\* SodiumBuf::new never writes.  The bytes found there are the allocator's:
\* libsodium fills the region with 0xdb, a replacement may leave zeroes.
Null == -1

Garbage == {0, 219}

Malloc == {Null} \cup Garbage

\* z: what sodium_malloc returned
SodiumBuf_new(s, z) ==
    IF BadSize(s) THEN [panic |-> TRUE, b |-> NoStore]
    ELSE IF z = Null THEN [panic |-> TRUE, b |-> NoStore]
    ELSE [panic |-> FALSE,
          b |-> [kind |-> "SodiumBuf", bytes |-> [i \in 1..s |-> z], prot |-> NoAccess]]

Bufferable_len(b) == Len(b.bytes)

Bufferable_readable(b) ==
    IF b.kind = "SodiumBuf" THEN [b EXCEPT !.prot = ReadOnly] ELSE b

Bufferable_writable(b) ==
    IF b.kind = "SodiumBuf" THEN [b EXCEPT !.prot = ReadWrite] ELSE b

\* (mutant of Bufferable_noaccess: the memory is wiped when it is locked)
Bufferable_noaccess_wipe(b) ==
    IF b.kind = "SodiumBuf" THEN [b EXCEPT !.prot = NoAccess, !.bytes = Zeroes(Len(b.bytes))]
    ELSE b

Bufferable_noaccess(b) ==
    IF b.kind = "SodiumBuf" THEN [b EXCEPT !.prot = NoAccess] ELSE b

\* ref_ hands out the bytes without any test; reading them faults when the
\* memory is protected against reading
Bufferable_ref(b) ==
    IF b.prot = NoAccess THEN [outcome |-> "fault", bytes |-> <<>>]
    ELSE [outcome |-> "ok", bytes |-> b.bytes]

-----------------------------------------------------------------------------
(* SecBuf *)

NoBuf == [b |-> NoStore, p |-> "None"]

with_insecure(s) ==
    LET r == RustBuf_new(s)
    IN  [panic |-> r.panic,
         sb |-> IF r.panic THEN NoBuf ELSE [b |-> r.b, p |-> NoAccess]]

\* (mutant of with_secure: the buffer starts out writable)
with_secure_open(s, z) ==
    LET r == SodiumBuf_new(s, z)
    IN  [panic |-> r.panic,
         sb |-> IF r.panic THEN NoBuf ELSE [b |-> Bufferable_writable(r.b), p |-> ReadWrite]]

with_secure(s, z) ==
    LET r == SodiumBuf_new(s, z)
    IN  [panic |-> r.panic,
         sb |-> IF r.panic THEN NoBuf ELSE [b |-> r.b, p |-> NoAccess]]

protect_state(sb) == sb.p

len(sb) == Bufferable_len(sb.b)

\* (mutant of readable: the double-lock test is missing)
readable_unchecked(sb) ==
    [panic |-> FALSE, sb |-> [b |-> Bufferable_readable(sb.b), p |-> ReadOnly]]

readable(sb) ==
    IF sb.p = NoAccess
    THEN [panic |-> FALSE, sb |-> [b |-> Bufferable_readable(sb.b), p |-> ReadOnly]]
    ELSE [panic |-> TRUE, sb |-> sb]

\* (mutant of writable: a readable buffer is upgraded)
writable_upgrade(sb) ==
    IF sb.p # ReadWrite
    THEN [panic |-> FALSE, sb |-> [b |-> Bufferable_writable(sb.b), p |-> ReadWrite]]
    ELSE [panic |-> TRUE, sb |-> sb]

\* (mutant of writable: the store is not told)
writable_field_only(sb) ==
    IF sb.p = NoAccess
    THEN [panic |-> FALSE, sb |-> [sb EXCEPT !.p = ReadWrite]]
    ELSE [panic |-> TRUE, sb |-> sb]

writable(sb) ==
    IF sb.p = NoAccess
    THEN [panic |-> FALSE, sb |-> [b |-> Bufferable_writable(sb.b), p |-> ReadWrite]]
    ELSE [panic |-> TRUE, sb |-> sb]

\* (mutant of noaccess: the field is not set)
noaccess_store_only(sb) == [sb EXCEPT !.b = Bufferable_noaccess(sb.b)]

\* (mutant of noaccess: only a readable buffer is locked again)
noaccess_from_readonly(sb) ==
    IF sb.p = ReadOnly THEN [b |-> Bufferable_noaccess(sb.b), p |-> NoAccess] ELSE sb

noaccess(sb) == [b |-> Bufferable_noaccess(sb.b), p |-> NoAccess]

\* impl Deref for SecBuf
deref(sb) ==
    IF sb.p = NoAccess THEN [outcome |-> "panic", bytes |-> <<>>]
    ELSE Bufferable_ref(sb.b)

\* (mutant of deref_mut: the test of Deref is used)
deref_mut_as_deref(sb) == ~(sb.p = NoAccess)

\* impl DerefMut for SecBuf: TRUE when the mutable view is handed out
deref_mut(sb) == ~(sb.p # ReadWrite)

\* impl Debug for SecBuf, impl Debug for Locker: both format self.b.ref_()
SecBuf_fmt(sb) == Bufferable_ref(sb.b)

Locker_fmt(sb) == Bufferable_ref(sb.b)

\* sb[i] : Deref, then the slice index
index(sb, i) ==
    LET d == deref(sb)
    IN  IF d.outcome # "ok" THEN d
        ELSE IF i >= Len(d.bytes) THEN [outcome |-> "panic", bytes |-> <<>>]
        ELSE [outcome |-> "ok", bytes |-> <<d.bytes[i + 1]>>]

\* sb[i] = v : DerefMut, then the slice index, then the store
index_mut(sb, i, v) ==
    IF ~deref_mut(sb) THEN [panic |-> TRUE, sb |-> sb]
    ELSE IF i >= Len(sb.b.bytes) THEN [panic |-> TRUE, sb |-> sb]
    ELSE [panic |-> FALSE, sb |-> [sb EXCEPT !.b.bytes[i + 1] = v]]

-----------------------------------------------------------------------------
(* Locker *)

\* Locker::new: locker is TRUE when a Locker value was constructed
Locker_new(sb, w) ==
    LET r == IF w THEN writable(sb) ELSE readable(sb)
    IN  [panic |-> r.panic, sb |-> r.sb, locker |-> ~r.panic]

read_lock(sb) == Locker_new(sb, FALSE)

write_lock(sb) == Locker_new(sb, TRUE)

\* (mutant of Locker_drop: the buffer is left as it is)
Locker_drop_nothing(sb) == sb

\* impl Drop for Locker
Locker_drop(sb) == noaccess(sb)

-----------------------------------------------------------------------------
(* The Reed-Solomon codec used by render and *_corrected (crate            *)
(* reed_solomon): symbols are bytes, elements of GF(2^8) with the          *)
(* primitive polynomial x^8+x^4+x^3+x^2+1, generator element 2; the code   *)
(* polynomial has the roots 2^0 .. 2^(PARITY_LEN-1).                       *)

PARITY_LEN == 5

\* exclusive or of two numbers, bit by bit
RECURSIVE XorBits(_, _)
XorBits(a, b) ==
    IF a = 0 THEN b
    ELSE IF b = 0 THEN a
    ELSE 2 * XorBits(a \div 2, b \div 2) + ((a + b) % 2)

\* the table of the exclusive or of two half bytes
RECURSIVE xor_row(_, _)
xor_row(a, acc) ==
    IF Len(acc) = 16 THEN acc ELSE xor_row(a, Append(acc, XorBits(a, Len(acc))))

RECURSIVE xor_rows(_)
xor_rows(acc) ==
    IF Len(acc) = 16 THEN acc ELSE xor_rows(Append(acc, xor_row(Len(acc), <<>>)))

XOR4 == xor_rows(<<>>)

\* addition in GF(2^8): the exclusive or of two bytes
Xor(a, b) ==
    16 * XOR4[(a \div 16) + 1][(b \div 16) + 1] + XOR4[(a % 16) + 1][(b % 16) + 1]

\* multiplication by the generator element
gf_double(a) == IF 2 * a >= 256 THEN Xor(2 * a - 256, 29) ELSE 2 * a

\* n successive powers of the generator element, starting at v
RECURSIVE gf_powers(_, _)
gf_powers(v, n) ==
    IF n = 1 THEN <<v>>
    ELSE LET h == n \div 2
             left == gf_powers(v, h)
         IN  left \o gf_powers(gf_double(left[h]), n - h)

\* GF_EXP[i + 1] = 2^i
GF_EXP == gf_powers(1, 255)

\* the logarithms of lo..hi
RECURSIVE gf_logs(_, _)
gf_logs(lo, hi) ==
    IF lo = hi THEN <<CHOOSE i \in 0..254 : GF_EXP[i + 1] = lo>>
    ELSE LET mid == (lo + hi) \div 2
         IN  gf_logs(lo, mid) \o gf_logs(mid + 1, hi)

\* GF_LOG[a] = i with 2^i = a, for a in 1..255
GF_LOG == gf_logs(1, 255)

gf_pow2(i) == GF_EXP[(i % 255) + 1]

gf_mul(a, b) ==
    IF a = 0 \/ b = 0 THEN 0 ELSE gf_pow2(GF_LOG[a] + GF_LOG[b])

gf_div(a, b) ==
    IF a = 0 THEN 0 ELSE gf_pow2(GF_LOG[a] + 255 - GF_LOG[b])

\* product of the polynomial p (highest coefficient first) and (x + r):
\* coefficients i.. of the product appended to acc
RECURSIVE poly_mul_from(_, _, _, _)
poly_mul_from(p, r, i, acc) ==
    IF i > Len(p) + 1 THEN acc
    ELSE poly_mul_from(p, r, i + 1,
            Append(acc, Xor(IF i <= Len(p) THEN p[i] ELSE 0,
                            IF i >= 2 THEN gf_mul(p[i - 1], r) ELSE 0)))

poly_mul_root(p, r) == poly_mul_from(p, r, 1, <<>>)

RECURSIVE generator_poly(_)
generator_poly(n) ==
    IF n = 0 THEN <<1>>
    ELSE poly_mul_root(generator_poly(n - 1), gf_pow2(n - 1))

GEN_POLY == generator_poly(PARITY_LEN)

\* one step of the division: the remainder shifted by one symbol, with the
\* feedback symbol fb times the generator polynomial added
RECURSIVE rs_shift(_, _, _, _)
rs_shift(rem, fb, j, acc) ==
    IF j > PARITY_LEN THEN acc
    ELSE rs_shift(rem, fb, j + 1,
            Append(acc, Xor(IF j < PARITY_LEN THEN rem[j + 1] ELSE 0,
                            gf_mul(fb, GEN_POLY[j + 1]))))

\* the division carried through the symbols data[lo..hi], from remainder rem
RECURSIVE rs_divide(_, _, _, _)
rs_divide(data, lo, hi, rem) ==
    IF lo > hi \/ Len(rem) # PARITY_LEN THEN rem
    ELSE IF lo = hi THEN rs_shift(rem, Xor(data[lo], rem[1]), 1, <<>>)
    ELSE LET mid == (lo + hi) \div 2
             left == rs_divide(data, lo, mid, rem)
         IN  rs_divide(data, mid + 1, hi, left)

\* remainder of data(x) * x^PARITY_LEN divided by the generator polynomial
rs_remainder(data) == rs_divide(data, 1, Len(data), <<0, 0, 0, 0, 0>>)

\* Encoder::encode: the data followed by PARITY_LEN parity symbols
rs_encode(data) == data \o rs_remainder(data)

\* Horner evaluation of msg[lo..hi] at x, from the value acc
RECURSIVE rs_eval(_, _, _, _, _)
rs_eval(msg, lo, hi, x, acc) ==
    IF lo > hi \/ acc > 255 THEN acc
    ELSE IF lo = hi THEN Xor(gf_mul(acc, x), msg[lo])
    ELSE LET mid == (lo + hi) \div 2
             left == rs_eval(msg, lo, mid, x, acc)
         IN  rs_eval(msg, mid + 1, hi, x, left)

RECURSIVE rs_syndromes_from(_, _, _)
rs_syndromes_from(msg, j, acc) ==
    IF j > PARITY_LEN THEN acc
    ELSE rs_syndromes_from(msg, j + 1, Append(acc, rs_eval(msg, 1, Len(msg), gf_pow2(j - 1), 0)))

\* the syndromes S[j] = msg(2^(j-1)), all zero exactly for a code word
rs_syndromes(msg) == rs_syndromes_from(msg, 1, <<>>)

\* the symbol at power k of x (index Len(msg) - k of the sequence) changed by e
rs_fix(msg, k, e) == [msg EXCEPT ![Len(msg) - k] = Xor(@, e)]

RsErr == [ok |-> FALSE, abort |-> FALSE, msg |-> <<>>]

RsOk(msg) == [ok |-> TRUE, abort |-> FALSE, msg |-> msg]

\* two wrong symbols at the powers k1, k2 with the first error value e1:
\* the values add up to the first syndrome
rs_fix2(msg, S, k1, k2, e1) == RsOk(rs_fix(rs_fix(msg, k1, e1), k2, Xor(S[1], e1)))

\* the error values from  e1 + e2 = S[1],  e1*X1 + e2*X2 = S[2]
rs_values(msg, S, k1, k2) ==
    rs_fix2(msg, S, k1, k2,
            gf_div(Xor(S[2], gf_mul(S[1], gf_pow2(k2))), Xor(gf_pow2(k1), gf_pow2(k2))))

\* both roots of the locator must be positions of the message
rs_positions(msg, S, roots) ==
    IF Cardinality(roots) # 2 THEN RsErr
    ELSE rs_values(msg, S, CHOOSE k \in roots : \A m \in roots : k <= m,
                           CHOOSE k \in roots : \A m \in roots : k >= m)

\* the locator x^2 + L1*x + L2 has to continue the syndromes, and its
\* roots are the error positions 2^k
rs_locator(msg, S, L1, L2) ==
    IF Xor(Xor(S[5], gf_mul(L1, S[4])), gf_mul(L2, S[3])) # 0 THEN RsErr
    ELSE rs_positions(msg, S,
            {k \in 0..(Len(msg) - 1) :
                Xor(Xor(gf_pow2(2 * k), gf_mul(L1, gf_pow2(k))), L2) = 0})

rs_solve2(msg, S, det) ==
    IF det = 0 THEN RsErr
    ELSE rs_locator(msg, S,
            gf_div(Xor(gf_mul(S[2], S[3]), gf_mul(S[1], S[4])), det),
            gf_div(Xor(gf_mul(S[2], S[4]), gf_mul(S[3], S[3])), det))

\* two wrong symbols
rs_correct2(msg, S) == rs_solve2(msg, S, Xor(gf_mul(S[2], S[2]), gf_mul(S[1], S[3])))

\* one wrong symbol of value e at the power k: the syndromes are
\* e, e*X, e*X^2, ... with X = 2^k
rs_single(msg, S, X) ==
    /\ S[3] = gf_mul(S[2], X) /\ S[4] = gf_mul(S[3], X) /\ S[5] = gf_mul(S[4], X)
    /\ GF_LOG[X] < Len(msg)

rs_correct1(msg, S, X) ==
    IF rs_single(msg, S, X) THEN RsOk(rs_fix(msg, GF_LOG[X], S[1]))
    ELSE rs_correct2(msg, S)

rs_correct_syndromes(msg, S) ==
    IF \A j \in 1..PARITY_LEN : S[j] = 0 THEN RsOk(msg)
    ELSE IF S[1] # 0 /\ S[2] # 0 THEN rs_correct1(msg, S, gf_div(S[2], S[1]))
    ELSE rs_correct2(msg, S)

\* Decoder::correct(msg, None): the code word within PARITY_LEN \div 2 symbol
\* errors of msg, or an error; a message shorter than the parity (or longer
\* than the field allows) is a panic of the decoder
rs_correct(msg) ==
    IF Len(msg) < PARITY_LEN \/ Len(msg) > 255
    THEN [ok |-> FALSE, abort |-> TRUE, msg |-> <<>>]
    ELSE rs_correct_syndromes(msg, rs_syndromes(msg))

-----------------------------------------------------------------------------
(* Strings and base64 (crate base64, standard alphabet with padding).  A   *)
(* string is a sequence of characters; a character is the number of its    *)
(* base64 symbol (0..63: A-Z a-z 0-9 + /), or one of the characters below. *)

CH == [plus |-> 62, slash |-> 63, pad |-> 64, dash |-> 65, under |-> 66, bang |-> 67]

Chars == 0..67

\* str::replace for one-character patterns
replace(s, from, to) == [k \in 1..Len(s) |-> IF s[k] = from THEN to ELSE s[k]]

Pow2(n) == IF n = 0 THEN 1 ELSE IF n = 2 THEN 4 ELSE IF n = 4 THEN 16
           ELSE IF n = 6 THEN 64 ELSE IF n = 12 THEN 4096 ELSE 262144

\* base64::encode: three bytes give four symbols; a last group of one or
\* two bytes gives two or three symbols and is padded with '='
b64_encode(bytes) ==
    LET n == Len(bytes)
        byte(i) == IF i <= n THEN bytes[i] ELSE 0
        group(g) == byte(3 * g + 1) * 65536 + byte(3 * g + 2) * 256 + byte(3 * g + 3)
        symbols == (8 * n + 5) \div 6
    IN  [k \in 1..(4 * ((n + 2) \div 3)) |->
            IF k > symbols THEN CH.pad
            ELSE (group((k - 1) \div 4) \div Pow2(6 * (3 - ((k - 1) % 4)))) % 64]

\* base64::decode.  Versions of the crate differ on input that is not
\* canonical: a strict build rejects a last symbol with non-zero unused
\* bits and missing padding, a lenient build accepts both.
b64_decode(s, strict) ==
    LET n == Len(s)
        pad == IF n >= 1 /\ s[n] = CH.pad
               THEN (IF n >= 2 /\ s[n - 1] = CH.pad THEN 2 ELSE 1)
               ELSE 0
        m == n - pad
        nbytes == (6 * m) \div 8
        unused == 6 * m - 8 * nbytes
        byte(i) == LET o == 8 * (i - 1)
                       k == o \div 6 + 1
                   IN  ((s[k] * 64 + s[k + 1]) \div Pow2(4 - (o % 6))) % 256
    IN  IF \E k \in 1..m : s[k] > 63 THEN [ok |-> FALSE, bytes |-> <<>>]
        ELSE IF m % 4 = 1 THEN [ok |-> FALSE, bytes |-> <<>>]
        ELSE IF pad > 0 /\ n % 4 # 0 THEN [ok |-> FALSE, bytes |-> <<>>]
        ELSE IF strict /\ n % 4 # 0 THEN [ok |-> FALSE, bytes |-> <<>>]
        ELSE IF strict /\ m > 0 /\ s[m] % Pow2(unused) # 0
        THEN [ok |-> FALSE, bytes |-> <<>>]
        ELSE [ok |-> TRUE, bytes |-> [i \in 1..nbytes |-> byte(i)]]

-----------------------------------------------------------------------------
(* The identity codec of SecBuf *)

\* the loop of convert_array_to_secbuf over data[lo..hi]; r is the buffer
\* so far and whether a store panicked
RECURSIVE store_range(_, _, _, _)
store_range(data, lo, hi, r) ==
    IF lo > hi \/ r.panic THEN r
    ELSE IF lo = hi THEN index_mut(r.sb, lo - 1, data[lo])
    ELSE LET mid == (lo + hi) \div 2
             left == store_range(data, lo, mid, r)
         IN  store_range(data, mid + 1, hi, left)

\* (mutant of convert_array_to_secbuf: the Locker is never dropped)
convert_array_to_secbuf_locked(data, sb) ==
    LET l == write_lock(sb)
        w == store_range(data, 1, Len(data), [panic |-> FALSE, sb |-> l.sb])
    IN  IF l.panic THEN [panic |-> TRUE, sb |-> sb]
        ELSE [panic |-> w.panic, sb |-> w.sb]

\* write_lock, the copy, and the drop of the Locker at the end of the
\* scope (also when the scope is left by a panic)
convert_array_to_secbuf(data, sb) ==
    LET l == write_lock(sb)
        w == store_range(data, 1, Len(data), [panic |-> FALSE, sb |-> l.sb])
    IN  IF l.panic THEN [panic |-> TRUE, sb |-> sb]
        ELSE [panic |-> w.panic, sb |-> Locker_drop(w.sb)]

\* (mutant of render: the parity symbols are not appended)
render_no_parity(sb) ==
    LET d == deref(sb)
    IN  IF d.outcome # "ok" THEN d
        ELSE [outcome |-> "ok",
              bytes |-> replace(replace(b64_encode(d.bytes),
                                        CH.plus, CH.dash), CH.slash, CH.under)]

\* render: &self is dereferenced to the bytes (Deref for SecBuf), the
\* parity is appended, and the base64 text is made URL-safe
render(sb) ==
    LET d == deref(sb)
    IN  IF d.outcome # "ok" THEN d
        ELSE [outcome |-> "ok",
              bytes |-> replace(replace(b64_encode(rs_encode(d.bytes)),
                                        CH.plus, CH.dash), CH.slash, CH.under)]

NoResult(outcome) == [outcome |-> outcome, sb |-> NoBuf]

\* convert_array_to_secbuf(&dec[0..dec.len()-5], &mut b); Ok(b)
loaded(c) == IF c.panic THEN NoResult("panic") ELSE [outcome |-> "Ok", sb |-> c.sb]

\* the payload of a corrected code word loaded into the new buffer n
load_corrected(msg, n) ==
    IF n.panic THEN NoResult("panic")
    ELSE loaded(convert_array_to_secbuf(SubSeq(msg, 1, Len(msg) - 5), n.sb))

\* (mutant of unescape: the second replacement is forgotten)
unescape_dash_only(s) == replace(s, CH.dash, CH.plus)

\* (mutant of unescape: the first replacement is forgotten)
unescape_under_only(s) == replace(s, CH.under, CH.slash)

\* s.replace("-", "+").replace("_", "/")
unescape(s) == replace(replace(s, CH.dash, CH.plus), CH.under, CH.slash)

\* let dec = *dec.correct(base64.as_slice(), None)?; with_secure(dec.len()-5)
securely_loaded(dec, z) ==
    IF dec.abort THEN NoResult("panic")
    ELSE IF ~dec.ok THEN NoResult("CorrectionError")
    ELSE load_corrected(dec.msg, with_secure(Len(dec.msg) - 5, z))

\* let base64 = base64::decode(&s)?;
securely_decoded(base64, z) ==
    IF ~base64.ok THEN NoResult("DecodeError")
    ELSE securely_loaded(rs_correct(base64.bytes), z)

securely_corrected(s, z, strict) ==
    securely_decoded(b64_decode(unescape(s), strict), z)

insecurely_loaded(dec) ==
    IF dec.abort THEN NoResult("panic")
    ELSE IF ~dec.ok THEN NoResult("CorrectionError")
    ELSE load_corrected(dec.msg, with_insecure(Len(dec.msg) - 5))

insecurely_decoded(base64) ==
    IF ~base64.ok THEN NoResult("DecodeError")
    ELSE insecurely_loaded(rs_correct(base64.bytes))

insecurely_corrected(s, strict) ==
    insecurely_decoded(b64_decode(unescape(s), strict))

-----------------------------------------------------------------------------
(* The state machine: one buffer, the Lockers on it, and a caller that     *)
(* invokes the public operations in any order.  While a Locker is alive    *)
(* the caller reaches the buffer through it (Deref / DerefMut for Locker   *)
(* hand out the SecBuf itself), so the same operations apply.              *)

Done(op, arg, env, outcome, out) ==
    [op |-> op, arg |-> arg, env |-> env, pre |-> buf, preg |-> Len(guards),
     outcome |-> outcome, out |-> out]

Outcome(panic) == IF panic THEN "panic" ELSE "ok"

NoAlt == [pos |-> 0, old |-> 0, new |-> 0]

NoCall == [call |-> "none", z_null |-> FALSE, from |-> "none",
           outcome |-> "none", sb |-> NoBuf]

SMInit ==
    /\ buf = NoBuf
    /\ guards = <<>>
    /\ panicking = FALSE
    /\ last = [op |-> "init", arg |-> 0, env |-> FALSE, pre |-> NoBuf, preg |-> 0,
               outcome |-> "ok", out |-> <<>>]

CodecStart ==
    /\ src = NoBuf
    /\ str = <<>>
    /\ alt = NoAlt
    /\ res = NoCall

Init ==
    /\ SMInit
    /\ CodecStart
    /\ strict_b64 = TRUE
    /\ stage = "off"

Idle == ~panicking

Live == Idle /\ buf # NoBuf

WithInsecure(s) ==
    /\ Idle /\ buf = NoBuf
    /\ LET r == with_insecure(s)
       IN  /\ buf' = r.sb
           /\ panicking' = r.panic
           /\ last' = Done("with_insecure", s, FALSE, Outcome(r.panic), <<>>)
    /\ UNCHANGED guards
    /\ UNCHANGED cvars

WithSecure(s, z) ==
    /\ Idle /\ buf = NoBuf
    /\ LET r == with_secure(s, z)
       IN  /\ buf' = r.sb
           /\ panicking' = r.panic
           /\ last' = Done("with_secure", s, z = Null, Outcome(r.panic), <<>>)
    /\ UNCHANGED guards
    /\ UNCHANGED cvars

Readable ==
    /\ Live
    /\ LET r == readable(buf)
       IN  /\ buf' = r.sb
           /\ panicking' = r.panic
           /\ last' = Done("readable", 0, FALSE, Outcome(r.panic), <<>>)
    /\ UNCHANGED guards
    /\ UNCHANGED cvars

Writable ==
    /\ Live
    /\ LET r == writable(buf)
       IN  /\ buf' = r.sb
           /\ panicking' = r.panic
           /\ last' = Done("writable", 0, FALSE, Outcome(r.panic), <<>>)
    /\ UNCHANGED guards
    /\ UNCHANGED cvars

Noaccess ==
    /\ Live
    /\ buf' = noaccess(buf)
    /\ last' = Done("noaccess", 0, FALSE, "ok", <<>>)
    /\ UNCHANGED <<guards, panicking>>
    /\ UNCHANGED cvars

ReadLock ==
    /\ Live /\ Len(guards) < MaxGuards
    /\ LET r == read_lock(buf)
       IN  /\ buf' = r.sb
           /\ guards' = IF r.locker THEN Append(guards, "r") ELSE guards
           /\ panicking' = r.panic
           /\ last' = Done("read_lock", 0, FALSE, Outcome(r.panic), <<>>)
    /\ UNCHANGED cvars

WriteLock ==
    /\ Live /\ Len(guards) < MaxGuards
    /\ LET r == write_lock(buf)
       IN  /\ buf' = r.sb
           /\ guards' = IF r.locker THEN Append(guards, "w") ELSE guards
           /\ panicking' = r.panic
           /\ last' = Done("write_lock", 0, FALSE, Outcome(r.panic), <<>>)
    /\ UNCHANGED cvars

\* the innermost Locker goes out of scope
DropGuard ==
    /\ Live /\ guards # <<>>
    /\ buf' = Locker_drop(buf)
    /\ guards' = SubSeq(guards, 1, Len(guards) - 1)
    /\ last' = Done("drop_guard", 0, FALSE, "ok", <<>>)
    /\ UNCHANGED panicking
    /\ UNCHANGED cvars

\* the buffer goes out of scope (no Locker borrows it)
DropBuf ==
    /\ Live /\ guards = <<>>
    /\ buf' = NoBuf
    /\ last' = Done("drop_buf", 0, FALSE, "ok", <<>>)
    /\ UNCHANGED <<guards, panicking>>
    /\ UNCHANGED cvars

\* the effect of a byte-reading operation with result r: the bytes are
\* yielded, or the operation panics, or the read of protected memory kills
\* the process
Reads(op, arg, r) ==
    /\ last' = Done(op, arg, FALSE, r.outcome, r.bytes)
    /\ panicking' = (r.outcome = "panic")
    /\ buf' = IF r.outcome = "fault" THEN NoBuf ELSE buf
    /\ guards' = IF r.outcome = "fault" THEN <<>> ELSE guards

IndexRead(i) ==
    /\ Live
    /\ Reads("index", i, index(buf, i))
    /\ UNCHANGED cvars

IndexWrite(i, v) ==
    /\ Live
    /\ LET r == index_mut(buf, i, v)
       IN  /\ buf' = r.sb
           /\ panicking' = r.panic
           /\ last' = Done("index_mut", i, FALSE, Outcome(r.panic),
                           IF r.panic THEN <<>> ELSE <<v>>)
    /\ UNCHANGED guards
    /\ UNCHANGED cvars

DebugSecBuf ==
    /\ Live
    /\ Reads("fmt_secbuf", 0, SecBuf_fmt(buf))
    /\ UNCHANGED cvars

DebugLocker ==
    /\ Live /\ guards # <<>>
    /\ Reads("fmt_locker", 0, Locker_fmt(buf))
    /\ UNCHANGED cvars

Render ==
    /\ Live
    /\ Reads("render", 0, render(buf))
    /\ UNCHANGED cvars

GetProtectState ==
    /\ Live
    /\ last' = Done("protect_state", 0, FALSE, "ok", <<protect_state(buf)>>)
    /\ UNCHANGED <<buf, guards, panicking>>
    /\ UNCHANGED cvars

GetLen ==
    /\ Live
    /\ last' = Done("len", 0, FALSE, "ok", <<len(buf)>>)
    /\ UNCHANGED <<buf, guards, panicking>>
    /\ UNCHANGED cvars

\* unwinding leaves the scope of the innermost Locker: its Drop runs
UnwindGuard ==
    /\ panicking /\ guards # <<>>
    /\ buf' = Locker_drop(buf)
    /\ guards' = SubSeq(guards, 1, Len(guards) - 1)
    /\ last' = Done("unwind_guard", 0, FALSE, "ok", <<>>)
    /\ UNCHANGED panicking
    /\ UNCHANGED cvars

\* the panic is caught (or reaches the end of the test): unwinding stops
Catch ==
    /\ panicking
    /\ panicking' = FALSE
    /\ last' = Done("catch", 0, FALSE, "ok", <<>>)
    /\ UNCHANGED <<buf, guards>>
    /\ UNCHANGED cvars

Next ==
    \/ \E s \in Sizes : WithInsecure(s)
    \/ \E s \in Sizes, z \in Malloc : WithSecure(s, z)
    \/ Readable
    \/ Writable
    \/ Noaccess
    \/ ReadLock
    \/ WriteLock
    \/ DropGuard
    \/ DropBuf
    \/ \E i \in 0..MaxIdx : IndexRead(i)
    \/ \E i \in 0..MaxIdx, v \in Vals : IndexWrite(i, v)
    \/ DebugSecBuf
    \/ DebugLocker
    \/ Render
    \/ GetProtectState
    \/ GetLen
    \/ UnwindGuard
    \/ Catch

Spec == Init /\ [][Next]_vars

-----------------------------------------------------------------------------
(* The codec scenario of the tests it_should_encode_*: a buffer is filled, *)
(* rendered under a read guard, and the string (as rendered, with one      *)
(* character altered, or any string entered by a user) is handed to        *)
(* securely_corrected / insecurely_corrected.                              *)

\* at most the first MaxDirty bytes of a source buffer are non-zero
MaxDirty == 1

\* characters are altered among the first and the last MaxAlter of a string
MaxAlter == 4

\* byte values of source buffers
Bytes == {0, 12, 251, 255}

\* sizes of insecure and of secure source buffers
InsecureSizes == {1, 8}

SecureSizes == {8, 16, 32, 64}

\* the characters an altered position is set to
AlterChars == {0, 42, CH.plus, CH.pad, CH.dash, CH.under, CH.bang}

\* strings entered directly: "AAAAAAAA", "AAAAAAA=", "AAAAAAAAAAAAAAAAAA==",
\* "!", "AAAAA", "AAAAAAAAAAAAAA-_" (each decodes to five bytes or more, or
\* does not decode)
Inputs == {<<0, 0, 0, 0, 0, 0, 0, 0>>, <<0, 0, 0, 0, 0, 0, 0, 64>>,
           <<0, 0, 0, 0, 0, 0, 0, 0, 0, 0, 0, 0, 0, 0, 0, 0, 0, 0, 64, 64>>,
           <<67>>, <<0, 0, 0, 0, 0>>,
           <<0, 0, 0, 0, 0, 0, 0, 0, 0, 0, 0, 0, 0, 0, 65, 66>>}

Min(a, b) == IF a <= b THEN a ELSE b

Contents(s) ==
    {[i \in 1..s |-> IF i <= MaxDirty THEN d[i] ELSE 0] :
        d \in [1..Min(s, MaxDirty) -> Bytes]}

CodecInit ==
    /\ SMInit
    /\ CodecStart
    /\ strict_b64 \in BOOLEAN
    /\ stage = "new"

\* a buffer of the given kind holding the bytes c, as left by
\* with_insecure / with_secure and a fill through a write guard
NewSource(secure, c) ==
    /\ stage = "new"
    /\ \E z \in Garbage :
         LET n == IF secure THEN with_secure(Len(c), z) ELSE with_insecure(Len(c))
             f == convert_array_to_secbuf(c, n.sb)
         IN  /\ ~n.panic /\ ~f.panic
             /\ src' = f.sb
    /\ stage' = "filled"
    /\ UNCHANGED <<str, alt, strict_b64, res, smvars>>

\* let b = b.read_lock(); let enc = b.render();
RenderSource ==
    /\ stage = "filled"
    /\ LET l == read_lock(src)
           r == render(l.sb)
       IN  /\ ~l.panic /\ r.outcome = "ok"
           /\ str' = r.bytes
           /\ src' = Locker_drop(l.sb)
    /\ stage' = "rendered"
    /\ UNCHANGED <<alt, strict_b64, res, smvars>>

AlterPositions(n) == {i \in 1..n : i <= MaxAlter \/ i > n - MaxAlter}

\* one character of the rendered string is replaced by another
Alter(i, c) ==
    /\ stage = "rendered"
    /\ i \in AlterPositions(Len(str))
    /\ c # str[i]
    /\ str' = [str EXCEPT ![i] = c]
    /\ alt' = [pos |-> i, old |-> str[i], new |-> c]
    /\ stage' = "altered"
    /\ UNCHANGED <<src, strict_b64, res, smvars>>

\* the numbers of bytes of the code word that a corruption changes
Corruptions == 3..6

\* the bytes of a where they agree with b, and the bytes of b in the first
\* k places where they do not
Mixed(a, b, k) ==
    [i \in 1..Len(a) |->
        IF a[i] # b[i] /\ Cardinality({j \in 1..i : a[j] # b[j]}) <= k
        THEN b[i] ELSE a[i]]

\* the text of a byte sequence, as render writes it
text(bytes) == replace(replace(b64_encode(bytes), CH.plus, CH.dash), CH.slash, CH.under)

\* the rendered string is corrupted in transit: k bytes of its code word
\* are overwritten, here by those of the code word of contents c2 with
\* another first byte
Corrupt(c2, k) ==
    /\ stage = "rendered"
    /\ Len(c2) = Len(src.b.bytes) /\ c2[1] # src.b.bytes[1]
    /\ \A i \in 2..Len(c2) : c2[i] = src.b.bytes[i]
    /\ str' = text(Mixed(rs_encode(src.b.bytes), rs_encode(c2), k))
    /\ stage' = "corrupted"
    /\ UNCHANGED <<src, alt, strict_b64, res, smvars>>

\* the rendered string is rewritten in the standard alphabet: every '-'
\* becomes '+' and every '_' becomes '/'
Substitute ==
    /\ stage = "rendered"
    /\ str' = replace(replace(str, CH.dash, CH.plus), CH.under, CH.slash)
    /\ stage' = "substituted"
    /\ UNCHANGED <<src, alt, strict_b64, res, smvars>>

\* a string entered by a user
Enter(s) ==
    /\ stage = "new"
    /\ str' = s
    /\ stage' = "entered"
    /\ UNCHANGED <<src, alt, strict_b64, res, smvars>>

HasString == stage \in {"rendered", "altered", "corrupted", "substituted", "entered"}

SecurelyCorrected(z) ==
    /\ HasString
    /\ LET r == securely_corrected(str, z, strict_b64)
       IN  res' = [call |-> "securely_corrected", z_null |-> (z = Null), from |-> stage,
                   outcome |-> r.outcome, sb |-> r.sb]
    /\ stage' = "done"
    /\ UNCHANGED <<src, str, alt, strict_b64, smvars>>

InsecurelyCorrected ==
    /\ HasString
    /\ LET r == insecurely_corrected(str, strict_b64)
       IN  res' = [call |-> "insecurely_corrected", z_null |-> FALSE, from |-> stage,
                   outcome |-> r.outcome, sb |-> r.sb]
    /\ stage' = "done"
    /\ UNCHANGED <<src, str, alt, strict_b64, smvars>>

CodecNext ==
    \/ \E s \in InsecureSizes : \E c \in Contents(s) : NewSource(FALSE, c)
    \/ \E s \in SecureSizes : \E c \in Contents(s) : NewSource(TRUE, c)
    \/ RenderSource
    \/ \E i \in 1..128, c \in AlterChars : Alter(i, c)
    \/ \E s \in InsecureSizes \cup SecureSizes :
           \E c2 \in Contents(s), k \in Corruptions : Corrupt(c2, k)
    \/ Substitute
    \/ \E s \in Inputs : Enter(s)
    \/ \E z \in Malloc : SecurelyCorrected(z)
    \/ InsecurelyCorrected

SpecCodec == CodecInit /\ [][CodecNext]_vars

-----------------------------------------------------------------------------
(* Properties of the state machine (specification Spec) *)

ReadOps == {"index", "render", "fmt_secbuf", "fmt_locker"}

LockOps == {"readable", "writable", "read_lock", "write_lock"}

Requested(op) == IF op \in {"readable", "read_lock"} THEN ReadOnly ELSE ReadWrite

\* C1: an operation that reads bytes (indexed read, render, Debug formatting
\* of a SecBuf or of a Locker) performed in state NoAccess aborts, yields no
\* bytes, and leaves the state NoAccess.
C1_NoReadInNoAccess ==
    (last.op \in ReadOps /\ last.pre.p = NoAccess)
        => /\ last.outcome # "ok"
           /\ last.out = <<>>
           /\ (buf # NoBuf => buf.p = NoAccess)

\* C2: a byte write succeeds only in state ReadWrite; attempted in NoAccess
\* or ReadOnly it aborts and leaves the bytes and the protection state as
\* they were.
C2_WriteOnlyInReadWrite ==
    last.op = "index_mut"
        => /\ (last.outcome = "ok" => last.pre.p = ReadWrite)
           /\ (last.pre.p # ReadWrite => last.outcome = "panic" /\ buf = last.pre)

\* a write through a guard obtained with read_lock has aborted
C2_Witness ==
    /\ last.op = "index_mut" /\ last.outcome = "panic"
    /\ last.pre.p = ReadOnly
    /\ guards # <<>> /\ guards[Len(guards)] = "r"

\* C3: readable / writable / read_lock / write_lock succeed only from
\* NoAccess and then reach the requested state; called in ReadOnly or
\* ReadWrite they abort, no Locker is created, and the protection state and
\* the store's access mode stay as they were.
C3_LockOnlyFromNoAccess ==
    last.op \in LockOps
        => /\ (last.outcome = "ok"
                => last.pre.p = NoAccess /\ buf.p = Requested(last.op))
           /\ (last.pre.p \in {ReadOnly, ReadWrite}
                => /\ last.outcome = "panic"
                   /\ Len(guards) = last.preg
                   /\ buf = last.pre)

\* write_lock on a secure buffer that is ReadOnly has aborted
C3_Witness ==
    /\ last.op = "write_lock" /\ last.outcome = "panic"
    /\ last.pre.p = ReadOnly /\ last.pre.b.kind = "SodiumBuf"

\* C4: right after a Locker is released (end of scope or unwinding), the
\* protection state is NoAccess.
C4_ReleaseGivesNoAccess ==
    last.op \in {"drop_guard", "unwind_guard"} => buf.p = NoAccess

\* a Locker was released by unwinding while the buffer was accessible
C4_Witness == last.op = "unwind_guard" /\ last.pre.p # NoAccess

\* C5: at most one Locker is alive for the buffer.
C5_AtMostOneGuard == Len(guards) <= 1

\* C6: a constructed buffer is in state NoAccess and has the requested
\* length.
C6_ConstructedNoAccess ==
    (last.op \in {"with_insecure", "with_secure"} /\ last.outcome = "ok")
        => /\ buf # NoBuf
           /\ protect_state(buf) = NoAccess
           /\ len(buf) = last.arg

C6_Witness == last.op = "with_secure" /\ last.outcome = "ok" /\ last.arg = 64

\* C7 as stated: with_secure(s) aborts, creating no buffer, exactly when s
\* is not one of 8, 16, 32, 64; with_insecure(s) always succeeds.
C7_AbortsExactlyOnBadSize ==
    /\ last.op = "with_secure"
        => /\ (last.outcome = "panic") <=> (last.arg \notin {8, 16, 32, 64})
           /\ (last.outcome = "panic" => buf = NoBuf)
    /\ last.op = "with_insecure" => last.outcome = "ok"

\* C7 amended: with_secure(s) aborts, creating no buffer, exactly when s is
\* not one of 8, 16, 32, 64 or sodium_malloc returns null; with_insecure(s)
\* always succeeds.
C7_AbortsOnBadSizeOrNoMemory ==
    /\ last.op = "with_secure"
        => /\ (last.outcome = "panic") <=> (last.arg \notin {8, 16, 32, 64} \/ last.env)
           /\ (last.outcome = "panic" => buf = NoBuf)
    /\ last.op = "with_insecure" => last.outcome = "ok"

\* with_secure of an allowed size has aborted for want of memory
C7_Witness ==
    /\ last.op = "with_secure" /\ last.arg = 8 /\ last.env
    /\ last.outcome = "panic" /\ buf = NoBuf

\* C13: for a secure-backed buffer the protection state field equals the
\* access mode last applied to the backing store, in every reachable state,
\* also after an operation that aborted.
C13_FieldEqualsStoreMode ==
    (buf # NoBuf /\ buf.b.kind = "SodiumBuf") => buf.p = buf.b.prot

\* a secure buffer was made writable by a guard, and a second lock on a
\* secure buffer aborted
C13_Witness ==
    /\ buf # NoBuf /\ buf.b.kind = "SodiumBuf"
    /\ \/ last.op = "write_lock" /\ last.outcome = "ok" /\ buf.b.prot = ReadWrite
       \/ last.op = "read_lock" /\ last.outcome = "panic" /\ buf.b.prot = ReadWrite

\* C14 as stated: in every reachable state, a buffer with no guard alive is
\* in NoAccess.
C14_NoGuardNoAccess ==
    (buf # NoBuf /\ guards = <<>>) => buf.p = NoAccess

\* C14 amended: a buffer with no guard alive is in NoAccess unless
\* readable() or writable() was called on it directly: only these calls
\* enter a state other than NoAccess with no guard alive, and every
\* construction, noaccess, read_lock, write_lock and guard release leaves
\* a buffer without guards in NoAccess.
C14_NoGuardNoAccessUnlessDirect ==
    [][(buf' # NoBuf /\ guards' = <<>> /\ buf'.p # NoAccess)
          => \/ last'.op \in {"readable", "writable"}
             \/ (guards = <<>> /\ buf.p = buf'.p /\ last'.op # "drop_guard")]_vars

\* the last guard of two was released and the buffer is in NoAccess
C14_Witness ==
    /\ buf # NoBuf /\ guards = <<>> /\ buf.p = NoAccess
    /\ last.op = "drop_guard" /\ last.pre.p = ReadWrite

\* the mode a guard asked for
GuardMode(g) == IF g = "r" THEN ReadOnly ELSE ReadWrite

\* C15: while a guard is alive, from its creation until its release, the
\* protection state of the buffer is the mode the guard requested, whatever
\* is invoked through the guard.
C15_GuardKeepsMode ==
    buf # NoBuf => \A i \in 1..Len(guards) : buf.p = GuardMode(guards[i])

\* C16: a freshly constructed buffer of either variant holds s bytes that
\* read as zero under a read guard before any write: the buffer has the
\* length asked for, and a byte read by index under a read guard is zero
\* or a value that an indexed write stored.
C16_FreshBufferZero ==
    /\ (last.op \in {"with_insecure", "with_secure"} /\ last.outcome = "ok")
            => len(buf) = last.arg
    /\ (last.op = "index" /\ last.outcome = "ok" /\ guards = <<"r">>
            /\ last.pre.p = ReadOnly)
            => last.out[1] \in {0} \cup Vals

\* the operations that change the protection or only look at the buffer
FrameOps == {"readable", "writable", "noaccess", "read_lock", "write_lock",
             "drop_guard", "unwind_guard", "render", "len", "protect_state"}

\* C17: readable, writable, noaccess, guard creation, guard release, render,
\* len and protect_state leave every byte and the length unchanged; an
\* indexed write changes the byte at its index only, and an indexed read
\* yields the byte stored at its index.
C17_TransitionsKeepData ==
    [][/\ last'.op \in FrameOps
            => buf'.b.bytes = buf.b.bytes /\ len(buf') = len(buf)
       /\ (last'.op = "index_mut" /\ last'.outcome = "ok")
            => /\ len(buf') = len(buf)
               /\ buf'.b.bytes[last'.arg + 1] = last'.out[1]
               /\ \A j \in 1..len(buf) :
                      j # last'.arg + 1 => buf'.b.bytes[j] = buf.b.bytes[j]
       /\ (last'.op = "index" /\ last'.outcome = "ok")
            => /\ buf'.b.bytes = buf.b.bytes
               /\ last'.out = <<buf.b.bytes[last'.arg + 1]>>]_vars

\* a value written to a secure buffer under a write guard is read under a
\* later read guard
C17_Witness ==
    /\ last.op = "index" /\ last.outcome = "ok" /\ last.arg = 1
    /\ last.out = <<222>> /\ guards = <<"r">>
    /\ buf.b.kind = "SodiumBuf" /\ buf.b.bytes[1] = 219

\* C18: noaccess() never aborts and ends in NoAccess from each of the
\* three states, and calling it again changes nothing.
C18_NoaccessIdempotent ==
    last.op = "noaccess"
        => /\ last.outcome = "ok" /\ ~panicking
           /\ buf.p = NoAccess
           /\ buf = noaccess(last.pre)
           /\ noaccess(buf) = buf

\* noaccess() was called on a secure buffer in NoAccess, and in ReadWrite
C18_Witness ==
    /\ last.op = "noaccess" /\ buf.b.kind = "SodiumBuf"
    /\ last.pre.p \in {NoAccess, ReadWrite}

\* C19: the protection state of a buffer never moves directly between
\* ReadOnly and ReadWrite: in every step that changes it, the state before
\* or the state after is NoAccess.
C19_NoDirectUpgrade ==
    [][(buf # NoBuf /\ buf' # NoBuf /\ buf'.p # buf.p)
          => (buf.p = NoAccess \/ buf'.p = NoAccess)]_vars

\* a buffer held by a read guard has become writable, by way of NoAccess
C19_Witness ==
    /\ last.op = "write_lock" /\ last.outcome = "ok"
    /\ last.pre.p = NoAccess /\ buf.p = ReadWrite /\ guards = <<"r", "w">>

-----------------------------------------------------------------------------
(* Properties of the codec (specification SpecCodec) *)

SrcBytes == src.b.bytes

AllowedSizes == {8, 16, 32, 64}

\* corrected was called on a string for the bytes of src in a variant that
\* admits their number: insecurely_corrected, or securely_corrected for a
\* source of 8, 16, 32 or 64 bytes
Returned(from) ==
    /\ stage = "done" /\ res.from = from
    /\ (res.call = "insecurely_corrected" \/ Len(SrcBytes) \in AllowedSizes)

SameBytes ==
    /\ res.outcome = "Ok"
    /\ len(res.sb) = Len(SrcBytes)
    /\ \A i \in 1..Len(SrcBytes) : res.sb.b.bytes[i] = SrcBytes[i]

\* C8 as stated: the rendered string of a buffer, handed to
\* insecurely_corrected / securely_corrected, gives Ok with a buffer of the
\* same length and bytes.
C8_RoundTrip == Returned("rendered") => SameBytes

\* C8 amended: it gives Ok with a buffer of the same length and bytes,
\* unless sodium_malloc returns null for the new secure buffer, and then
\* securely_corrected aborts.
C8_RoundTripGivenMemory ==
    Returned("rendered")
        => IF res.z_null THEN res.outcome = "panic" /\ res.sb = NoBuf ELSE SameBytes

\* a secure buffer of 64 bytes with a non-zero byte came back the same
C8_Witness ==
    /\ Returned("rendered") /\ res.call = "securely_corrected" /\ ~res.z_null
    /\ src.b.kind = "SodiumBuf" /\ Len(SrcBytes) = 64 /\ SrcBytes[1] = 251
    /\ SameBytes /\ res.sb.b.kind = "SodiumBuf"

\* C9: for every input string and either variant the outcome is a fully
\* populated buffer, a DecodeError, or a CorrectionError with no buffer;
\* bad input is never an abort (the allocator providing memory).
C9_ThreeOutcomes ==
    (stage = "done" /\ ~res.z_null)
        => /\ res.outcome \in {"Ok", "DecodeError", "CorrectionError"}
           /\ (res.outcome = "Ok" <=> res.sb # NoBuf)

\* the number of symbols of str that are not padding
DataLen(s) ==
    Len(s) - (IF Len(s) >= 1 /\ s[Len(s)] = CH.pad
              THEN (IF Len(s) >= 2 /\ s[Len(s) - 1] = CH.pad THEN 2 ELSE 1)
              ELSE 0)

\* the base64 symbol a character stands for in corrected
SymbolOf(c) == IF c = CH.dash THEN CH.plus ELSE IF c = CH.under THEN CH.slash ELSE c

\* the number of low bits of the last symbol that carry no data
UnusedBits(m) == 6 * m - 8 * ((6 * m) \div 8)

AlphabetAlteration ==
    /\ alt.pos <= DataLen(str)
    /\ alt.old # CH.pad
    /\ alt.new \in (0..63) \cup {CH.dash, CH.under}
    /\ (alt.pos = DataLen(str)
            => SymbolOf(alt.new) % Pow2(UnusedBits(DataLen(str))) = 0)

ByteErrors ==
    LET cw == rs_encode(SrcBytes)
        d == b64_decode(unescape(str), strict_b64)
    IN  IF ~d.ok \/ Len(d.bytes) # Len(cw) THEN Len(cw)
        ELSE Cardinality({i \in 1..Len(cw) : d.bytes[i] # cw[i]})

\* C11: for every corruption of render(b) beyond the correction bound (more
\* than two bytes of the code word changed), corrected returns an error and
\* never Ok with bytes that differ from b (the allocator providing memory).
C11_NoWrongBytes ==
    (Returned("corrupted") /\ ~res.z_null /\ ByteErrors > 2)
        => /\ res.outcome \in {"DecodeError", "CorrectionError"}
           /\ res.sb = NoBuf

\* the string render gives for the source under a read guard
Rendered == render(read_lock(src).sb).bytes

\* what the call recorded in res gives for the string s when sodium_malloc
\* returns z
Corrected(s, z) ==
    IF res.call = "securely_corrected"
    THEN securely_corrected(s, z, strict_b64)
    ELSE insecurely_corrected(s, strict_b64)

\* C12: a rendered string S contains neither '+' nor '/', and corrected
\* gives for S with every '-' replaced by '+' and every '_' by '/' the
\* result it gives for S.
C12_SubstitutionSymmetry ==
    /\ stage = "rendered" => \A i \in 1..Len(str) : str[i] \notin {CH.plus, CH.slash}
    /\ (stage = "done" /\ res.from = "substituted")
            => \A z \in Malloc :
                   (z = Null) = res.z_null
                       => /\ res.outcome = Corrected(Rendered, z).outcome
                          /\ res.sb = Corrected(Rendered, z).sb

\* a string in which a '-' or a '_' was replaced came back as the source
C12_Witness ==
    /\ stage = "done" /\ res.from = "substituted"
    /\ \E i \in 1..Len(str) : str[i] \in {CH.plus, CH.slash}
    /\ str # Rendered
    /\ res.outcome = "Ok" /\ res.sb.b.bytes = SrcBytes

\* three changed bytes are beyond the correction bound and are reported
CorruptionOfThreeReported ==
    (Returned("corrupted") /\ ByteErrors = 3) => res.outcome \in {"CorrectionError", "panic"}

\* the code word that correction makes of the string handed in
CorrectedWord == rs_correct(b64_decode(unescape(str), strict_b64).bytes)

\* C20: when securely_corrected or insecurely_corrected returns Ok, the
\* buffer returned has the length of the corrected bytes minus PARITY_LEN,
\* holds the corrected payload without the parity suffix, is of the variant
\* asked for, is in NoAccess, and no guard is left on it (it can be locked).
C20_OkBufferReleased ==
    (stage = "done" /\ res.outcome = "Ok")
        => /\ LET cw == CorrectedWord
              IN  /\ cw.ok
                  /\ len(res.sb) = Len(cw.msg) - PARITY_LEN
                  /\ res.sb.b.bytes = SubSeq(cw.msg, 1, len(res.sb))
           /\ res.sb.b.kind = (IF res.call = "securely_corrected"
                               THEN "SodiumBuf" ELSE "RustBuf")
           /\ protect_state(res.sb) = NoAccess
           /\ (res.sb.b.kind = "SodiumBuf" => res.sb.b.prot = NoAccess)
           /\ ~read_lock(res.sb).panic

\* an altered string was corrected into a secure buffer of 8 bytes
C20_Witness ==
    /\ stage = "done" /\ res.outcome = "Ok" /\ res.from = "altered"
    /\ res.call = "securely_corrected" /\ len(res.sb) = 8
    /\ res.sb.b.bytes[1] = 255 /\ res.sb.p = NoAccess

=============================================================================
